---- MODULE Spec2Model ----
(***************************************************************************)
(* termwhat: provider factory, configuration store and REPL session.       *)
(*                                                                         *)
(* The module holds one state machine and several specifications over it:  *)
(*   SpecRepl  - an interactive session started from a fixed configuration *)
(*               (questions, replies, failures, /term, /clear)             *)
(*   SpecMain  - process start: load, overlay of flags and environment,    *)
(*               adapter construction, then the configuration commands     *)
(*   SpecSwitch- the same session with /provider, /model, /host and a few  *)
(*               questions                                                 *)
(*   SpecChat  - one provider.chat call with its timer and its transport   *)
(*   SpecSetup - the setup dialogue, then process start and the commands   *)
(*   SpecLoad  - loadConfig applied to every modelled file content, then   *)
(*               saveConfig and further loadConfig calls                   *)
(*                                                                         *)
(* Modelling notes                                                         *)
(*  - A question is identified by its ordinal; a reply by the ordinal of   *)
(*    its question and the kind of the backend that produced it.           *)
(*  - An absent JavaScript property is the value Undef (strings) or NoNum  *)
(*    (numbers); "" and 0 are kept apart from them because || treats all   *)
(*    of them as unset while !== undefined does not.                       *)
(*  - The process is taken to run outside Docker (DefaultHost).            *)
(*  - /help, /history, /models, /doctor and unknown commands change no     *)
(*    session state and have no action; rendering is not modelled.         *)
(*  - writeFileSync either writes the whole document or throws and leaves  *)
(*    the file as it was.                                                  *)
(***************************************************************************)
EXTENDS Integers, Sequences, FiniteSets, TLC

VARIABLES
    pc,                  \* "start" | "repl" | "exited" | "crashed" | "loaded" |
                         \* "saved" | "reloaded" | "created" | "setup ..."
    opts,                \* command-line options (index.ts 44-46)
    env,                 \* process.env, the TERMWHAT_* variables
    file,                \* content of ~/.termwhatrc
    config,              \* state.config, the in-memory AppConfig object
    provider,            \* state.provider, the live adapter
    currentProviderName, \* state.currentProviderName
    history,             \* conversationHistory
    inflight,            \* provider.chat calls awaiting their response
    turn,                \* number of questions asked so far
    sent,                \* the most recent chat request
    clean,               \* TRUE while the run is sequential successful plain turns only
    failures,            \* number of chat calls that failed
    clears,              \* number of /clear commands
    overlaps,            \* number of lines handled while a chat call was outstanding
    commands,            \* number of /provider, /model and /host commands handled
    ev,                  \* the handler that ran last and its outcome
    call,                \* the provider.chat call followed step by step
    profile              \* the export lines appended to the shell profile

vars == <<pc, opts, env, file, config, provider, currentProviderName,
          history, inflight, turn, sent, clean, failures, clears, overlaps,
          commands, ev, call, profile>>

----------------------------------------------------------------------------
(* Bounds of the model *)

MaxTurns == 12
MaxInflight == 2
MaxFailures == 1
MaxClears == 1
MaxOverlaps == 1
MaxCommands == 2
SwitchTurns == 2
MaxChunks == 2
MaxLines == 2
MaxMsgs == 3

(* Program constants *)

MAX_HISTORY == 10
DEFAULT_TIMEOUT == 60000

----------------------------------------------------------------------------
(* JavaScript values *)

Undef == "undefined"          \* an absent property / unset variable
NoNum == 0 - 1                  \* an absent numeric property

Truthy(s) == s \notin {Undef, ""}
TruthyNum(n) == n \notin {NoNum, 0}

\* a || b on strings and on numbers
OrElse(a, b) == IF Truthy(a) THEN a ELSE b
OrElseNum(a, b) == IF TruthyNum(a) THEN a ELSE b

Kinds == {"ollama", "openai", "anthropic", "openrouter"}
CloudKinds == Kinds \ {"ollama"}

DefaultHost == "http://localhost:11434"
DefaultModel == "llama3.2"

\* One entry of AppConfig.providers
Entry(k, m, h, t) == [provider |-> k, model |-> m, host |-> h, timeout |-> t]

NoEntry == Entry(Undef, Undef, Undef, NoNum)

\* A JSON document / parsed object.  providers maps entry names to entries;
\* hasProviders tells an absent providers property from an empty mapping.
Doc(cp, ps, hasPs, lh, lm, lt) ==
    [isObj |-> TRUE, currentProvider |-> cp, hasProviders |-> hasPs,
     providers |-> ps, ollamaHost |-> lh, model |-> lm, timeout |-> lt]

AppConfig(cp, ps) == Doc(cp, ps, TRUE, Undef, Undef, NoNum)

NoProviders == [n \in {} |-> NoEntry]

NullDoc == [isObj |-> FALSE, currentProvider |-> Undef, hasProviders |-> FALSE,
            providers |-> NoProviders, ollamaHost |-> Undef, model |-> Undef,
            timeout |-> NoNum]

\* config.providers[name]: undefined when the name is not a key
Lookup(c, name) ==
    IF c.hasProviders /\ name \in DOMAIN c.providers THEN c.providers[name] ELSE NoEntry

HasEntry(c, name) == c.hasProviders /\ name \in DOMAIN c.providers

FileAbsent == [kind |-> "absent", doc |-> NullDoc]
FileCorrupt == [kind |-> "corrupt", doc |-> NullDoc]
FileJson(d) == [kind |-> "json", doc |-> d]

----------------------------------------------------------------------------
(* Environment and options *)

Env(p, m, h, ko, ka, kr) ==
    [TERMWHAT_PROVIDER |-> p, TERMWHAT_MODEL |-> m, TERMWHAT_OLLAMA_HOST |-> h,
     TERMWHAT_OPENAI_API_KEY |-> ko, TERMWHAT_ANTHROPIC_API_KEY |-> ka,
     TERMWHAT_OPENROUTER_API_KEY |-> kr]

Opts(p, h, m) == [provider |-> p, host |-> h, model |-> m]

NoOpts == Opts(Undef, Undef, Undef)

----------------------------------------------------------------------------
(* Adapters and the factory *)

\* A constructed adapter: what getProviderType(), getModelName() and
\* getConfig() report, and the name of the entry it was built from.
Adapter(k, m, h, t, src) == [kind |-> k, model |-> m, host |-> h, timeout |-> t, src |-> src]

NoAdapter == Adapter(Undef, Undef, Undef, NoNum, Undef)

Failed(msg) == [ok |-> FALSE, adapter |-> NoAdapter, err |-> msg]
Built(a) == [ok |-> TRUE, adapter |-> a, err |-> ""]

enrichConfig(cfg, e) ==
    IF cfg.provider = "ollama"
    THEN [cfg EXCEPT !.host = OrElse(e.TERMWHAT_OLLAMA_HOST, cfg.host),
                     !.model = OrElse(e.TERMWHAT_MODEL, cfg.model)]
    ELSE IF cfg.provider \in CloudKinds
    THEN [cfg EXCEPT !.model = OrElse(e.TERMWHAT_MODEL, cfg.model)]
    ELSE cfg

OpenAIProvider(cfg, e, src) ==
    IF ~Truthy(e.TERMWHAT_OPENAI_API_KEY)
    THEN Failed("TERMWHAT_OPENAI_API_KEY environment variable is not set")
    ELSE Built(Adapter("openai", cfg.model, Undef, cfg.timeout, src))

AnthropicProvider(cfg, e, src) ==
    IF ~Truthy(e.TERMWHAT_ANTHROPIC_API_KEY)
    THEN Failed("TERMWHAT_ANTHROPIC_API_KEY environment variable is not set")
    ELSE Built(Adapter("anthropic", cfg.model, Undef, cfg.timeout, src))

\* The constructor runs OpenAIProvider's constructor first (super), then
\* checks its own variable.
OpenRouterProvider(cfg, e, src) ==
    LET base == OpenAIProvider(cfg, e, src)
    IN  IF ~base.ok THEN base
        ELSE IF ~Truthy(e.TERMWHAT_OPENROUTER_API_KEY)
        THEN Failed("TERMWHAT_OPENROUTER_API_KEY environment variable is not set")
        ELSE Built(Adapter("openrouter", cfg.model, Undef, cfg.timeout, src))

OllamaProvider(cfg, e, src) ==
    Built(Adapter("ollama", cfg.model, cfg.host, cfg.timeout, src))

\* AIProviderFactory.create
Create(cfg, e, src) ==
    LET enriched == enrichConfig(cfg, e)
    IN  CASE enriched.provider = "ollama" -> OllamaProvider(enriched, e, src)
          [] enriched.provider = "openai" -> OpenAIProvider(enriched, e, src)
          [] enriched.provider = "anthropic" -> AnthropicProvider(enriched, e, src)
          [] enriched.provider = "openrouter" -> OpenRouterProvider(enriched, e, src)
          [] OTHER -> Failed("Unknown provider type")

\* createFromAppConfig without the check of the looked-up entry
createFromAppConfigUnchecked(c, e) ==
    IF ~c.isObj \/ ~c.hasProviders THEN Failed("TypeError")
    ELSE Create(Lookup(c, c.currentProvider), e, c.currentProvider)

\* AIProviderFactory.createFromAppConfig.  Reading a property of null or of
\* an undefined providers mapping throws a TypeError.
createFromAppConfig(c, e) ==
    IF ~c.isObj \/ ~c.hasProviders THEN Failed("TypeError")
    ELSE IF ~HasEntry(c, c.currentProvider)
         THEN Failed("Provider not found in configuration")
         ELSE Create(c.providers[c.currentProvider], e, c.currentProvider)

\* provider.updateConfig({ model }) / ({ host })
updateModel(a, m) == [a EXCEPT !.model = m]
updateHost(a, h) == [a EXCEPT !.host = h]

----------------------------------------------------------------------------
(* Conversation history *)

SYSTEM_PROMPT == <<"system prompt", 0>>

Msg(r, c) == [role |-> r, content |-> c]
SystemMsg == Msg("system", SYSTEM_PROMPT)
UserMsg(t) == Msg("user", <<"question", t>>)
\* the reply to question t, as answered by a backend of kind k
AssistantMsg(t, k) == Msg("assistant", <<"reply", t, k>>)

\* history.splice(1, 1)
Splice11(h) == <<h[1]>> \o SubSeq(h, 3, Len(h))

\* history.splice(1, 2)
Splice12(h) == <<h[1]>> \o SubSeq(h, 4, Len(h))

\* while (history.length > MAX_HISTORY * 2 + 1) history.splice(1, 2)
RECURSIVE Trim(_)
Trim(h) == IF Len(h) > MAX_HISTORY * 2 + 1 THEN Trim(Splice12(h)) ELSE h

\* The handler that ran, its argument, whether it completed, and the lines
\* it printed (kept for the /provider, /model and /host handlers)
EventOut(op, arg, ok, out) == [op |-> op, arg |-> arg, ok |-> ok, out |-> out]

Event(op, arg, ok) == EventOut(op, arg, ok, << >>)

\* console.error of saveConfig's catch
SaveFailedLine == <<"Error: Failed to save config">>

\* the message of the error writeFileSync throws
WriteError == "EACCES: permission denied"

\* /provider <name> with the save failure swallowed
ProviderOutputSwallowed(name, entry, saved) ==
    IF saved THEN << <<"Provider set to", name, entry.provider, entry.model>> >>
    ELSE << >>

\* /provider <name>: what the try block and its catch print once the adapter
\* is built
ProviderOutput(name, entry, saved) ==
    IF saved THEN << <<"Provider set to", name, entry.provider, entry.model>> >>
    ELSE <<SaveFailedLine, <<"Error switching provider", WriteError>> >>

\* provider.chat(history, ...): the request holds the history as it is at the call
ChatRequestLastOnly(p, h, t) == [turn |-> t, to |-> p, messages |-> <<h[1], h[Len(h)]>>]

ChatRequest(p, h, t) == [turn |-> t, to |-> p, messages |-> h]

NoSent == [turn |-> 0, to |-> NoAdapter, messages |-> << >>]

\* The error a chat call rejects with: its message, the number the message
\* carries, and the message of the error it wraps
ChatErr(msg, n, inner) == [msg |-> msg, n |-> n, inner |-> inner]
NoErr == ChatErr("", NoNum, "")

\* The request a provider.chat call hands to its transport: the system
\* instruction (a text, and whether the property is present) and the messages
Request(system, hasSystem, messages) ==
    [system |-> system, hasSystem |-> hasSystem, messages |-> messages]

NoRequest == Request(<< >>, FALSE, << >>)

\* One provider.chat call: the adapter, whether onChunk was given, whether
\* the local adapter holds its library client, whether the timer has fired,
\* the chunks received, and how the call ended; for a streaming call also
\* the text collected so far (fullResponse, as its characters), the contents
\* given to onChunk in order, and, on fetch, the bytes of the response body
\* and how many of them have been read
Call(st, a, stream, lib, aborted, chunks, err) ==
    [state |-> st, to |-> a, stream |-> stream, lib |-> lib, aborted |-> aborted,
     chunks |-> chunks, err |-> err,
     fullResponse |-> << >>, delivered |-> << >>, body |-> << >>, pos |-> 0,
     request |-> NoRequest]

\* no provider.chat call is being followed
NoCall == Call("none", NoAdapter, FALSE, FALSE, FALSE, 0, NoErr)

Idle == pc = "repl" /\ inflight = {}

----------------------------------------------------------------------------------------------------------------------------------------
(* The configuration store *)

DefaultConfig ==
    AppConfig("ollama", [n \in {"ollama"} |->
        Entry("ollama", DefaultModel, DefaultHost, DEFAULT_TIMEOUT)])

\* JSON text, as the mapping from the paths of the members it holds to
\* their values; an object is the member "{}" at its own path
NullText == [p \in {<< >>} |-> "null"]

\* the own properties of an object that JSON.stringify emits: those whose
\* value is not undefined
Members(o, strs, nums) ==
    {k \in strs : o[k] # Undef} \cup {k \in nums : o[k] # NoNum}

\* JSON.stringify that also leaves out empty strings and zeros
StringifyTruthy(d) ==
    IF ~d.isObj THEN NullText
    ELSE LET top == {k \in {"currentProvider", "ollamaHost", "model"} : Truthy(d[k])}
                    \cup {k \in {"timeout"} : TruthyNum(d[k])}
             names == IF d.hasProviders THEN DOMAIN d.providers ELSE {}
             inner == {<<n, k>> \in names \X {"provider", "model", "host", "timeout"} :
                          IF k = "timeout" THEN TruthyNum(d.providers[n][k])
                          ELSE Truthy(d.providers[n][k])}
             paths == {<< >>} \cup {<<k>> : k \in top}
                      \cup (IF d.hasProviders THEN {<<"providers">>} ELSE {})
                      \cup {<<"providers", n>> : n \in names}
                      \cup {<<"providers", x[1], x[2]>> : x \in inner}
         IN  [p \in paths |->
                 IF Len(p) = 1 /\ p[1] # "providers" THEN d[p[1]]
                 ELSE IF Len(p) = 3 THEN d.providers[p[2]][p[3]]
                 ELSE "{}"]

\* JSON.stringify(config, null, 2)
Stringify(d) ==
    IF ~d.isObj THEN NullText
    ELSE LET top == Members(d, {"currentProvider", "ollamaHost", "model"}, {"timeout"})
             names == IF d.hasProviders THEN DOMAIN d.providers ELSE {}
             inner == {<<n, k>> \in names \X {"provider", "model", "host", "timeout"} :
                          k \in Members(d.providers[n], {"provider", "model", "host"},
                                        {"timeout"})}
             paths == {<< >>} \cup {<<k>> : k \in top}
                      \cup (IF d.hasProviders THEN {<<"providers">>} ELSE {})
                      \cup {<<"providers", n>> : n \in names}
                      \cup {<<"providers", x[1], x[2]>> : x \in inner}
         IN  [p \in paths |->
                 IF Len(p) = 1 /\ p[1] # "providers" THEN d[p[1]]
                 ELSE IF Len(p) = 3 THEN d.providers[p[2]][p[3]]
                 ELSE "{}"]

\* reading a member of parsed JSON: undefined when the text does not hold it
StrAt(t, p) == IF p \in DOMAIN t THEN t[p] ELSE Undef
NumAt(t, p) == IF p \in DOMAIN t THEN t[p] ELSE NoNum

\* JSON.parse(content)
Parse(t) ==
    IF t = NullText THEN NullDoc
    ELSE Doc(StrAt(t, <<"currentProvider">>),
             [n \in {p[2] : p \in {q \in DOMAIN t : Len(q) = 2}} |->
                 Entry(StrAt(t, <<"providers", n, "provider">>),
                       StrAt(t, <<"providers", n, "model">>),
                       StrAt(t, <<"providers", n, "host">>),
                       NumAt(t, <<"providers", n, "timeout">>))],
             <<"providers">> \in DOMAIN t,
             StrAt(t, <<"ollamaHost">>), StrAt(t, <<"model">>), NumAt(t, <<"timeout">>))

\* saveConfig: JSON.stringify(config) written to the file.  The content of
\* the file is kept as the document JSON.parse reads from the text.
saveConfig(c) == FileJson(Parse(Stringify(c)))

isLegacyConfig(c) ==
    /\ c.isObj
    /\ ~Truthy(c.currentProvider)
    /\ (c.ollamaHost # Undef \/ c.model # Undef)

\* a migration that adds the providers mapping to the legacy document and
\* keeps the document's own fields
migrateInPlace(legacy) ==
    Doc(legacy.currentProvider,
        [n \in {"ollama"} |->
            Entry("ollama",
                  OrElse(legacy.model, DefaultModel),
                  OrElse(legacy.ollamaHost, DefaultHost),
                  OrElseNum(legacy.timeout, DEFAULT_TIMEOUT))],
        TRUE, legacy.ollamaHost, legacy.model, legacy.timeout)

migrateLegacyConfig(legacy) ==
    AppConfig("ollama", [n \in {"ollama"} |->
        Entry("ollama",
              OrElse(legacy.model, DefaultModel),
              OrElse(legacy.ollamaHost, DefaultHost),
              OrElseNum(legacy.timeout, DEFAULT_TIMEOUT))])

Loaded(c, f, migrated, warned) ==
    [config |-> c, file |-> f, migrated |-> migrated, warned |-> warned]

\* a loadConfig that creates the file with the default when it is absent
loadConfigCreating(f, canWrite) ==
    IF f.kind = "absent"
    THEN Loaded(DefaultConfig, IF canWrite THEN saveConfig(DefaultConfig) ELSE f, FALSE, FALSE)
    ELSE IF f.kind = "corrupt" THEN Loaded(DefaultConfig, f, FALSE, TRUE)
    ELSE IF isLegacyConfig(f.doc)
         THEN IF canWrite
              THEN Loaded(migrateLegacyConfig(f.doc),
                          saveConfig(migrateLegacyConfig(f.doc)), TRUE, FALSE)
              ELSE Loaded(DefaultConfig, f, FALSE, TRUE)
         ELSE Loaded(f.doc, f, FALSE, FALSE)

\* loadConfig on file content f; canWrite tells whether writeFileSync
\* succeeds.  A throw inside the try block, the one of saveConfig included,
\* lands in the catch and yields the default.
loadConfig(f, canWrite) ==
    IF f.kind = "absent" THEN Loaded(DefaultConfig, f, FALSE, FALSE)
    ELSE IF f.kind = "corrupt" THEN Loaded(DefaultConfig, f, FALSE, TRUE)
    ELSE IF isLegacyConfig(f.doc)
         THEN IF canWrite
              THEN Loaded(migrateLegacyConfig(f.doc),
                          saveConfig(migrateLegacyConfig(f.doc)), TRUE, FALSE)
              ELSE Loaded(DefaultConfig, f, FALSE, TRUE)
         ELSE Loaded(f.doc, f, FALSE, FALSE)

\* getProviderConfig: the entry name it resolves
SelectedName(c, e, providerName) ==
    OrElse(providerName, OrElse(e.TERMWHAT_PROVIDER, c.currentProvider))

\* getProviderConfig: the entry overlaid with the environment
getProviderConfig(c, e, providerName) ==
    LET entry == c.providers[SelectedName(c, e, providerName)]
    IN  IF entry.provider = "ollama"
        THEN [entry EXCEPT !.host = OrElse(e.TERMWHAT_OLLAMA_HOST, entry.host),
                           !.model = OrElse(e.TERMWHAT_MODEL, entry.model)]
        ELSE [entry EXCEPT !.model = OrElse(e.TERMWHAT_MODEL, entry.model)]

\* index.ts: "Apply CLI options (highest priority)"
ApplyCliOptions(cfg, o) ==
    LET withHost == IF Truthy(o.host) /\ cfg.provider = "ollama"
                    THEN [cfg EXCEPT !.host = o.host] ELSE cfg
    IN  IF Truthy(o.model) THEN [withHost EXCEPT !.model = o.model] ELSE withHost

----------------
(* The REPL: rl.on('line') handlers.  The listener is async and is not     *)
(* awaited by the emitter, so a line is handled whenever it arrives.       *)

\* A regular question: handleQuestion up to the await of provider.chat.
\* The user message is pushed, the history trimmed, and the request built
\* from the history as it is at the call.
StartChat(cap) ==
    /\ pc = "repl"
    /\ turn < cap
    /\ Cardinality(inflight) < MaxInflight
    /\ inflight # {} => overlaps < MaxOverlaps
    /\ overlaps' = IF inflight # {} THEN overlaps + 1 ELSE overlaps
    /\ LET t == turn + 1
           h == Trim(Append(history, UserMsg(t)))
       IN  /\ turn' = t
           /\ history' = h
           /\ inflight' = inflight \cup {[turn |-> t, to |-> provider]}
           /\ sent' = ChatRequest(provider, h, t)
    /\ UNCHANGED <<call, profile, pc, opts, env, file, config, provider, currentProviderName,
                   failures, clears, commands, ev>>

AskQuestion(cap) ==
    /\ StartChat(cap)
    /\ clean' = (clean /\ inflight = {})

\* /term <question>: handleCommand dispatches to the same handleQuestion
TermCmd(cap) ==
    /\ StartChat(cap)
    /\ clean' = FALSE

\* provider.chat resolved: the assistant message is pushed
ChatReply(c) ==
    /\ pc = "repl"
    /\ c \in inflight
    /\ history' = Append(history, AssistantMsg(c.turn, c.to.kind))
    /\ inflight' = inflight \ {c}
    /\ UNCHANGED <<call, profile, pc, opts, env, file, config, provider, currentProviderName,
                   turn, sent, clean, failures, clears, overlaps,
          commands, ev>>

\* provider.chat rejected: the error is printed, nothing is pushed
ChatError(c) ==
    /\ pc = "repl"
    /\ c \in inflight
    /\ failures < MaxFailures
    /\ failures' = failures + 1
    /\ inflight' = inflight \ {c}
    /\ clean' = FALSE
    /\ UNCHANGED <<call, profile, pc, opts, env, file, config, provider, currentProviderName,
                   history, turn, sent, clears, overlaps, commands, ev>>

\* /clear as history.length = 0
ClearAllCmd ==
    /\ pc = "repl"
    /\ clears < MaxClears
    /\ clears' = clears + 1
    /\ history' = << >>
    /\ clean' = FALSE
    /\ UNCHANGED <<call, profile, pc, opts, env, file, config, provider, currentProviderName,
                   inflight, turn, sent, failures, overlaps, commands, ev>>

\* /clear: history.length = 1
ClearCmd ==
    /\ pc = "repl"
    /\ clears < MaxClears
    /\ clears' = clears + 1
    /\ history' = SubSeq(history, 1, 1)
    /\ clean' = FALSE
    /\ UNCHANGED <<call, profile, pc, opts, env, file, config, provider, currentProviderName,
                   inflight, turn, sent, failures, overlaps, commands, ev>>

\* An exception that leaves the async line handler is an unhandled promise
\* rejection, which ends a Node 20 process.
Crash == pc' = "crashed"

\* /provider <name> with the names assigned before the adapter is built
ProviderCmdEager(name) ==
    /\ pc = "repl"
    /\ commands < MaxCommands
    /\ commands' = commands + 1
    /\ IF ~HasEntry(config, name)
       THEN /\ ev' = EventOut("provider", name, FALSE,
                                << <<"Error: Provider not found", name>>,
                                   <<"Run /provider list">> >>)
            /\ UNCHANGED <<provider, currentProviderName, config, file>>
       ELSE LET r == Create(config.providers[name], env, name)
            IN  IF ~r.ok
                THEN /\ ev' = EventOut("provider", name, FALSE,
                                         << <<"Error switching provider", r.err>> >>)
                     /\ currentProviderName' = name
                     /\ config' = [config EXCEPT !.currentProvider = name]
                     /\ UNCHANGED <<provider, file>>
                ELSE /\ provider' = r.adapter
                     /\ currentProviderName' = name
                     /\ config' = [config EXCEPT !.currentProvider = name]
                     /\ \E saved \in BOOLEAN :
                            /\ file' = IF saved THEN saveConfig(config') ELSE file
                            /\ ev' = EventOut("provider", name, saved,
                                   ProviderOutput(name, config.providers[name], saved))
    /\ clean' = FALSE
    /\ UNCHANGED <<call, profile, pc, opts, env, history, inflight, turn, sent, failures, clears, overlaps>>

\* /provider <name>
ProviderCmd(name) ==
    /\ pc = "repl"
    /\ commands < MaxCommands
    /\ commands' = commands + 1
    /\ IF ~HasEntry(config, name)
       THEN /\ ev' = EventOut("provider", name, FALSE,
                                << <<"Error: Provider not found", name>>,
                                   <<"Run /provider list">> >>)
            /\ UNCHANGED <<provider, currentProviderName, config, file>>
       ELSE LET r == Create(config.providers[name], env, name)
            IN  IF ~r.ok
                THEN /\ ev' = EventOut("provider", name, FALSE,
                                         << <<"Error switching provider", r.err>> >>)
                     /\ UNCHANGED <<provider, currentProviderName, config, file>>
                ELSE /\ provider' = r.adapter
                     /\ currentProviderName' = name
                     /\ config' = [config EXCEPT !.currentProvider = name]
                     /\ \E saved \in BOOLEAN :
                            /\ file' = IF saved THEN saveConfig(config') ELSE file
                            /\ ev' = EventOut("provider", name, saved,
                                   ProviderOutput(name, config.providers[name], saved))
    /\ clean' = FALSE
    /\ UNCHANGED <<call, profile, pc, opts, env, history, inflight, turn, sent, failures, clears, overlaps>>

\* /model <name>
ModelCmd(m) ==
    /\ pc = "repl"
    /\ commands < MaxCommands
    /\ commands' = commands + 1
    /\ provider' = updateModel(provider, m)
    /\ IF HasEntry(config, currentProviderName)
       THEN /\ config' = [config EXCEPT !.providers[currentProviderName].model = m]
            /\ \E saved \in BOOLEAN :
                   IF saved
                   THEN /\ file' = saveConfig(config')
                        /\ ev' = EventOut("model", m, TRUE, << <<"Model set to", m>> >>)
                        /\ pc' = pc
                   ELSE /\ file' = file
                        /\ ev' = EventOut("model", m, FALSE, <<SaveFailedLine>>)
                        /\ Crash
       ELSE /\ ev' = EventOut("model", m, TRUE, << <<"Model set to", m>> >>)
            /\ UNCHANGED <<config, file, pc>>
    /\ clean' = FALSE
    /\ UNCHANGED <<call, profile, opts, env, currentProviderName, history, inflight, turn, sent,
                   failures, clears, overlaps>>

\* /host <url>
HostCmd(h) ==
    /\ pc = "repl"
    /\ commands < MaxCommands
    /\ commands' = commands + 1
    /\ IF provider.kind # "ollama"
       THEN /\ ev' = EventOut("host", h, FALSE,
                                << <<"The /host command is only available for the Ollama provider">> >>)
            /\ UNCHANGED <<provider, config, file, pc>>
       ELSE /\ provider' = updateHost(provider, h)
            /\ IF /\ HasEntry(config, currentProviderName)
                  /\ config.providers[currentProviderName].provider = "ollama"
               THEN /\ config' = [config EXCEPT !.providers[currentProviderName].host = h]
                    /\ \E saved \in BOOLEAN :
                           IF saved
                           THEN /\ file' = saveConfig(config')
                                /\ ev' = EventOut("host", h, TRUE, << <<"Host set to", h>> >>)
                                /\ pc' = pc
                           ELSE /\ file' = file
                                /\ ev' = EventOut("host", h, FALSE, <<SaveFailedLine>>)
                                /\ Crash
               ELSE /\ ev' = EventOut("host", h, TRUE, << <<"Host set to", h>> >>)
                    /\ UNCHANGED <<config, file, pc>>
    /\ clean' = FALSE
    /\ UNCHANGED <<call, profile, opts, env, currentProviderName, history, inflight, turn, sent,
                   failures, clears, overlaps>>

----------------------------------------------------------------------------
(* Process start *)

\* The main action of index.ts with no question argument: load the
\* configuration, resolve the entry, overlay environment and flags, build
\* the adapter and enter startRepl.
Main ==
    /\ pc = "start"
    /\ \E canWrite \in BOOLEAN :
        LET l == loadConfig(file, canWrite)
            c == l.config
            name == SelectedName(c, env, opts.provider)
        IN  /\ file' = l.file
            /\ config' = c
            /\ IF ~HasEntry(c, name)
               THEN /\ Crash
                    /\ ev' = Event("main", name, FALSE)
                    /\ UNCHANGED <<provider, currentProviderName>>
               ELSE LET r == Create(ApplyCliOptions(getProviderConfig(c, env, opts.provider), opts),
                                    env, name)
                    IN  /\ ev' = Event("main", name, r.ok)
                        /\ IF r.ok
                           THEN /\ pc' = "repl"
                                /\ provider' = r.adapter
                                /\ currentProviderName' = c.currentProvider
                           ELSE /\ pc' = "exited"
                                /\ UNCHANGED <<provider, currentProviderName>>
    /\ UNCHANGED <<call, profile, opts, env, history, inflight, turn, sent, clean, failures, clears,
                   overlaps, commands>>

\* loadConfig called on its own
LoadStep ==
    /\ pc = "start"
    /\ \E canWrite \in BOOLEAN :
        LET l == loadConfig(file, canWrite)
        IN  /\ file' = l.file
            /\ config' = l.config
            /\ ev' = Event("load", IF l.migrated THEN "migrated"
                                   ELSE IF l.warned THEN "warned" ELSE "plain", canWrite)
    /\ pc' = "loaded"
    /\ UNCHANGED <<call, profile, opts, env, provider, currentProviderName, history, inflight, turn,
                   sent, clean, failures, clears, overlaps, commands>>

\* a later loadConfig of the same process or of the next one
ReloadStep ==
    /\ pc \in {"loaded", "saved"}
    /\ \E canWrite \in BOOLEAN :
        LET l == loadConfig(file, canWrite)
        IN  /\ file' = l.file
            /\ config' = l.config
            /\ ev' = Event(IF pc = "saved" /\ ev.ok THEN "load saved" ELSE "reload",
                           IF l.migrated THEN "migrated"
                           ELSE IF l.warned THEN "warned" ELSE "plain", canWrite)
    /\ pc' = "reloaded"
    /\ UNCHANGED <<call, profile, opts, env, provider, currentProviderName, history, inflight, turn,
                   sent, clean, failures, clears, overlaps, commands>>

\* saveConfig(config) called on the configuration in memory; when
\* writeFileSync throws, saveConfig prints and rethrows
SaveStep ==
    /\ pc = "loaded"
    /\ \E written \in BOOLEAN :
        /\ file' = IF written THEN saveConfig(config) ELSE file
        /\ ev' = EventOut("save", ev.arg, written,
                           IF written THEN << >> ELSE <<SaveFailedLine>>)
    /\ pc' = "saved"
    /\ UNCHANGED <<call, profile, opts, env, config, provider, currentProviderName, history, inflight,
                   turn, sent, clean, failures, clears, overlaps, commands>>

\* AIProviderFactory.createFromAppConfig applied to the loaded configuration
CreateStep ==
    /\ pc \in {"loaded", "reloaded"}
    /\ LET r == createFromAppConfig(config, env)
       IN  /\ provider' = r.adapter
           /\ ev' = EventOut("create", config.currentProvider, r.ok,
                             IF r.ok THEN << >> ELSE << <<r.err>> >>)
    /\ pc' = "created"
    /\ UNCHANGED <<call, profile, opts, env, file, config, currentProviderName, history, inflight,
                   turn, sent, clean, failures, clears, overlaps, commands>>

----------------
(* SpecRepl: a session over a configuration with a local entry, a cloud    *)
(* entry whose credential is set, a cloud entry whose credential is not,   *)
(* and an entry whose kind tag is not one of the four                      *)

ReplEnv == Env(Undef, Undef, Undef, "sk-openai", Undef, Undef)

ReplConfig ==
    AppConfig("ollama",
        [n \in {"ollama", "openai", "anthropic", "custom"} |->
            CASE n = "ollama" -> Entry("ollama", DefaultModel, DefaultHost, DEFAULT_TIMEOUT)
              [] n = "openai" -> Entry("openai", "gpt-4", Undef, DEFAULT_TIMEOUT)
              [] n = "anthropic" -> Entry("anthropic", "claude-3-5-sonnet", Undef, DEFAULT_TIMEOUT)
              [] n = "custom" -> Entry("gemini", "gemini-pro", Undef, DEFAULT_TIMEOUT)])

ReplNames == {"ollama", "openai", "anthropic", "custom", "nosuch"}

\* startRepl: the state a session starts in
InitRepl ==
    /\ pc = "repl"
    /\ opts = NoOpts
    /\ env = ReplEnv
    /\ file = FileJson(ReplConfig)
    /\ config = ReplConfig
    /\ provider = Create(ReplConfig.providers["ollama"], ReplEnv, "ollama").adapter
    /\ currentProviderName = config.currentProvider
    /\ history = <<SystemMsg>>
    /\ inflight = {}
    /\ turn = 0
    /\ sent = NoSent
    /\ clean = TRUE
    /\ failures = 0
    /\ clears = 0
    /\ overlaps = 0
    /\ commands = 0
    /\ ev = Event("start", Undef, TRUE)
    /\ call = NoCall
    /\ profile = {}

NextRepl ==
    \/ AskQuestion(MaxTurns)
    \/ TermCmd(MaxTurns)
    \/ \E c \in inflight : ChatReply(c)
    \/ \E c \in inflight : ChatError(c)
    \/ ClearCmd

SpecRepl == InitRepl /\ [][NextRepl]_vars

----------------------------------------------------------------------------
(* SpecSwitch: the same session, with the configuration commands and a few *)
(* questions                                                               *)

CmdModels == {"model-2"}
CmdHosts == {"http://host-2:11434"}

NextSwitch ==
    \/ AskQuestion(SwitchTurns)
    \/ \E c \in inflight : ChatReply(c)
    \/ \E c \in inflight : ChatError(c)
    \/ \E name \in ReplNames : ProviderCmd(name)
    \/ \E m \in CmdModels : ModelCmd(m)
    \/ \E h \in CmdHosts : HostCmd(h)

SpecSwitch == InitRepl /\ [][NextSwitch]_vars

----------------------------------------------------------------------------
(* SpecMain: process start under every combination of flags, environment   *)
(* and credentials, over a file that configures all four backends          *)

MainConfig ==
    AppConfig("ollama",
        [n \in Kinds |->
            CASE n = "ollama" -> Entry("ollama", DefaultModel, DefaultHost, DEFAULT_TIMEOUT)
              [] n = "openai" -> Entry("openai", "gpt-4", Undef, DEFAULT_TIMEOUT)
              [] n = "anthropic" -> Entry("anthropic", "claude-3-5-sonnet", Undef, DEFAULT_TIMEOUT)
              [] n = "openrouter" -> Entry("openrouter", "or-model", Undef, DEFAULT_TIMEOUT)])

MainEnvs ==
    {Env(p, m, h, ko, ka, kr) :
        p \in {Undef, "openai"}, m \in {Undef, "env-model"},
        h \in {Undef, "http://env-host:11434"},
        ko \in {Undef, "sk-openai"}, ka \in {Undef, "sk-anthropic"},
        kr \in {Undef, "sk-openrouter"}}

MainOpts ==
    {Opts(p, h, m) :
        p \in {Undef, "openai", "anthropic", "openrouter"},
        h \in {Undef, "http://flag-host:11434"}, m \in {Undef, "flag-model"}}

InitIdle ==
    /\ provider = NoAdapter
    /\ currentProviderName = Undef
    /\ history = <<SystemMsg>>
    /\ inflight = {}
    /\ turn = 0
    /\ sent = NoSent
    /\ clean = TRUE
    /\ failures = 0
    /\ clears = 0
    /\ overlaps = 0
    /\ commands = 0
    /\ ev = Event("none", Undef, TRUE)
    /\ call = NoCall
    /\ profile = {}

InitMain ==
    /\ pc = "start"
    /\ opts \in MainOpts
    /\ env \in MainEnvs
    /\ file = FileJson(MainConfig)
    /\ config = NullDoc
    /\ InitIdle

MainNames == Kinds \cup {"nosuch"}

NextMain ==
    \/ Main
    \/ \E name \in MainNames : ProviderCmd(name)
    \/ \E m \in CmdModels : ModelCmd(m)
    \/ \E h \in CmdHosts : HostCmd(h)

SpecMain == InitMain /\ [][NextMain]_vars

----------------------------------------------------------------------------
(* SpecLoad: loadConfig applied to every modelled content of the file      *)

LegacyHosts == {Undef, "", "http://legacy-host:11434"}
LegacyModels == {Undef, "", "legacy-model"}
LegacyTimeouts == {NoNum, 0, 30000}

\* a mapping with an entry whose kind tag is not one of the four
OddProviders ==
    [n \in {"ollama", "custom"} |->
        IF n = "ollama" THEN Entry("ollama", DefaultModel, DefaultHost, DEFAULT_TIMEOUT)
        ELSE Entry("gemini", "gemini-pro", Undef, NoNum)]

LoadDocs ==
    {Doc(cp, ps, hasPs, lh, lm, lt) :
        cp \in {Undef, "", "ollama", "openai", "custom"},
        ps \in {NoProviders, DefaultConfig.providers, MainConfig.providers, OddProviders},
        hasPs \in BOOLEAN,
        lh \in LegacyHosts, lm \in LegacyModels, lt \in LegacyTimeouts}

LoadFiles ==
    {FileAbsent, FileCorrupt, FileJson(NullDoc)} \cup
    {FileJson(d) : d \in {x \in LoadDocs : x.hasProviders \/ x.providers = NoProviders}}

InitLoad ==
    /\ pc = "start"
    /\ opts = NoOpts
    /\ env \in {Env(Undef, Undef, Undef, ko, Undef, Undef) : ko \in {Undef, "sk-openai"}}
    /\ file \in LoadFiles
    /\ config = NullDoc
    /\ InitIdle

NextLoad == LoadStep \/ ReloadStep \/ SaveStep \/ CreateStep

SpecLoad == InitLoad /\ [][NextLoad]_vars

----------------------------------------------------------------------------
(* One provider.chat call, step by step *)

\* `Request timed out after ${this.timeout}ms`
TimeoutError(t) == ChatErr("Request timed out after", t, "")

\* the catch of the cloud adapters' chat: `<Name> API error: ${error.message}`
Wrapped(k, inner) ==
    ChatErr(IF k = "anthropic" THEN "Anthropic API error" ELSE "OpenAI API error",
            NoNum, inner)

\* the messages of the errors the transports raise
SdkTimeout == "Request timed out."
ConnectionError == "Connection error."

\* the error a chat call rejects with when the transport fails
TransportError(k) ==
    IF k = "ollama" THEN ChatErr("fetch failed", NoNum, "") ELSE Wrapped(k, ConnectionError)

\* The text of a content property as its characters: "a" and "b" are
\* strings of one character, '' has none
Chars(s) == IF Truthy(s) THEN <<s>> ELSE << >>

\* what a streaming loop has collected: fullResponse and the arguments of
\* the calls of onChunk, in order
Collected(full, delivered) == [fullResponse |-> full, delivered |-> delivered]

\* OpenAIProvider.chat, body of the for await loop:
\*   content = chunk.choices[0]?.delta?.content || '';
\*   if (content) { fullResponse += content; onChunk(content); }
OpenAIStreamChunk(r, content) ==
    LET c == OrElse(content, "")
    IN  IF Truthy(c)
        THEN Collected(r.fullResponse \o Chars(c), Append(r.delivered, c))
        ELSE r

\* AnthropicProvider.chat, body of the for await loop for a text_delta
\* event of text `content`; Undef stands for an event of another type
AnthropicStreamChunkLast(r, content) ==
    IF content = Undef
    THEN r
    ELSE Collected(Chars(content), Append(r.delivered, content))

AnthropicStreamChunk(r, content) ==
    IF content = Undef
    THEN r
    ELSE Collected(r.fullResponse \o Chars(content), Append(r.delivered, content))

\* OllamaProvider.chatWithLibrary, body of the for await loop after the
\* look at the signal:
\*   content = chunk.message?.content || ''; fullResponse += content;
\*   if (content) onChunk(content);
OllamaLibraryChunk(r, content) ==
    LET c == OrElse(content, "")
    IN  Collected(r.fullResponse \o Chars(c),
                  IF Truthy(c) THEN Append(r.delivered, c) ELSE r.delivered)

\* The bytes of an NDJSON response body, as symbols: a well-formed line
\* {"message":{"content":c},...} is "{", c, "}" (c = Undef: an object
\* without message.content); every line ends with NL
NL == "\n"
ContentSyms == {"a", "b", "", Undef}
WellFormedLine(c) == <<"{", c, "}">>
GarbageLine == <<"x">>
BlankLine == <<" ">>

\* JSON.parse(line) succeeds on a whole object
ParsesAsJson(line) ==
    /\ Len(line) = 3
    /\ line[1] = "{"
    /\ line[2] \in ContentSyms
    /\ line[3] = "}"

\* line.trim() is not empty
NotBlank(line) == \E i \in 1..Len(line) : line[i] # " "

\* chunk.split('\n')
RECURSIVE SplitAcc(_, _, _)
SplitAcc(s, cur, out) ==
    IF s = << >>
    THEN Append(out, cur)
    ELSE IF Head(s) = NL
         THEN SplitAcc(Tail(s), << >>, Append(out, cur))
         ELSE SplitAcc(Tail(s), Append(cur, Head(s)), out)

SplitLines(s) == SplitAcc(s, << >>, << >>)

\* OllamaProvider.chatWithFetch, body of the for loop over the lines of one
\* read: a line that does not parse is skipped
OllamaFetchLine(r, line) ==
    IF ParsesAsJson(line)
    THEN LET c == OrElse(line[2], "")
         IN  IF Truthy(c)
             THEN Collected(r.fullResponse \o Chars(c), Append(r.delivered, c))
             ELSE r
    ELSE r

RECURSIVE FetchLines(_, _)
FetchLines(r, lines) ==
    IF lines = << >>
    THEN r
    ELSE FetchLines(IF NotBlank(Head(lines)) THEN OllamaFetchLine(r, Head(lines)) ELSE r,
                    Tail(lines))

\* OllamaProvider.chatWithFetch, body of the while loop for one
\* reader.read() that returned the bytes `read`
OllamaFetchRead(r, read) == FetchLines(r, SplitLines(read))

\* the response bodies the server may send: up to MaxLines lines
RECURSIVE BodiesOf(_)
BodiesOf(n) ==
    IF n = 0
    THEN {<< >>}
    ELSE LET shorter == BodiesOf(n - 1)
             Lines == {WellFormedLine(c) : c \in {"a", "b", ""}} \cup {GarbageLine, BlankLine}
         IN  shorter \cup {b \o l \o <<NL>> : b \in shorter, l \in Lines}

Bodies == BodiesOf(MaxLines)

\* the contents a chunk of an SDK or library stream may carry
ChunkContents == {"a", "b", "", Undef}

\* the separator of systemMessages.map(m => m.content).join('\n\n')
ParagraphBreak == "\n\n"

\* texts.join('\n\n')
RECURSIVE JoinTexts(_)
JoinTexts(texts) ==
    IF texts = << >> THEN << >>
    ELSE IF Len(texts) = 1 THEN texts[1]
    ELSE texts[1] \o <<ParagraphBreak>> \o JoinTexts(Tail(texts))

IsSystem(m) == m.role = "system"
NotSystem(m) == m.role # "system"

\* AnthropicProvider.chat with only the first system message as instruction
AnthropicRequestFirstOnly(messages) ==
    LET systemMessages == SelectSeq(messages, IsSystem)
        conversationMessages == SelectSeq(messages, NotSystem)
        systemPrompt == IF systemMessages = << >> THEN << >> ELSE systemMessages[1].content
    IN  Request(systemPrompt, systemPrompt # << >>, conversationMessages)

\* AnthropicProvider.chat: the system messages are taken out of the history
\* and joined; system: systemPrompt || undefined
AnthropicRequest(messages) ==
    LET systemMessages == SelectSeq(messages, IsSystem)
        conversationMessages == SelectSeq(messages, NotSystem)
        systemPrompt == JoinTexts([i \in 1..Len(systemMessages) |-> systemMessages[i].content])
    IN  Request(systemPrompt, systemPrompt # << >>, conversationMessages)

\* the other adapters send messages.map(m => ({role, content})) as it is
PlainRequest(messages) == Request(<< >>, FALSE, messages)

RequestOf(a, messages) ==
    IF a.kind = "anthropic" THEN AnthropicRequest(messages) ELSE PlainRequest(messages)

\* provider.chat(messages, options) is entered.  The local adapter uses its
\* library client when the constructor built one and fetch otherwise.
CallChat(stream, lib) ==
    /\ pc = "repl"
    /\ call.state = "none"
    /\ provider.kind # "ollama" => ~lib
    /\ call' = [Call("waiting", provider, stream, lib, FALSE, 0, NoErr)
                   EXCEPT !.request = RequestOf(provider, history)]
    /\ UNCHANGED <<pc, opts, env, file, config, provider, currentProviderName,
                   history, inflight, turn, sent, clean, failures, clears, overlaps,
                   commands, ev, profile>>

\* The configured timeout expires before the call has ended.
\*   local adapter: setTimeout(() => controller.abort(), this.timeout).  The
\*     signal is given to fetch only, whose rejection (AbortError) chat turns
\*     into the timeout error; the library client is not given the signal.
\*   cloud adapters: the SDK client was built with timeout: config.timeout;
\*     it rejects with its own timeout error, which chat wraps.  Once the
\*     stream is open the SDK timer may no longer apply.
TimerFires ==
    /\ call.state \in {"waiting", "streaming"}
    /\ ~call.aborted
    /\ IF call.to.kind = "ollama"
       THEN IF call.lib
            THEN call' = [call EXCEPT !.aborted = TRUE]
            ELSE call' = [call EXCEPT !.aborted = TRUE, !.state = "failed",
                                      !.err = TimeoutError(call.to.timeout)]
       ELSE \/ call' = [call EXCEPT !.aborted = TRUE, !.state = "failed",
                                    !.err = Wrapped(call.to.kind, SdkTimeout)]
            \/ /\ call.state = "streaming"
               /\ call' = [call EXCEPT !.aborted = TRUE]
    /\ UNCHANGED <<pc, opts, env, file, config, provider, currentProviderName,
                   history, inflight, turn, sent, clean, failures, clears, overlaps,
                   commands, ev, profile>>

\* The response arrives: the whole of it, or the start of the stream
\* (on fetch with it the body the reader will deliver)
ResponseArrives ==
    /\ call.state = "waiting"
    /\ \E b \in IF call.stream /\ call.to.kind = "ollama" /\ ~call.lib
                THEN Bodies ELSE {<< >>} :
          call' = [call EXCEPT !.state = IF call.stream THEN "streaming" ELSE "done",
                               !.body = b]
    /\ UNCHANGED <<pc, opts, env, file, config, provider, currentProviderName,
                   history, inflight, turn, sent, clean, failures, clears, overlaps,
                   commands, ev, profile>>

\* A chunk of the stream arrives.  chatWithLibrary looks at signal.aborted
\* for each chunk and throws Error('Request aborted'), whose name is not
\* 'AbortError'.
\* The content of the chunk goes through the adapter's loop body.
ChunkArrives(content) ==
    /\ call.state = "streaming"
    /\ call.chunks < MaxChunks
    /\ call.to.kind = "ollama" => call.lib
    /\ IF call.to.kind = "ollama" /\ call.aborted
       THEN call' = [call EXCEPT !.state = "failed",
                                 !.err = ChatErr("Request aborted", NoNum, "")]
       ELSE LET r == Collected(call.fullResponse, call.delivered)
                q == IF call.to.kind = "ollama" THEN OllamaLibraryChunk(r, content)
                     ELSE IF call.to.kind = "anthropic" THEN AnthropicStreamChunk(r, content)
                     ELSE OpenAIStreamChunk(r, content)
            IN  call' = [call EXCEPT !.chunks = call.chunks + 1,
                                     !.fullResponse = q.fullResponse,
                                     !.delivered = q.delivered]
    /\ UNCHANGED <<pc, opts, env, file, config, provider, currentProviderName,
                   history, inflight, turn, sent, clean, failures, clears, overlaps,
                   commands, ev, profile>>

\* chatWithFetch: reader.read() returns the next n bytes of the body, which
\* are decoded, split into lines and parsed
ReadArrives(n) ==
    /\ call.state = "streaming"
    /\ call.to.kind = "ollama" /\ ~call.lib
    /\ n \in 1..(Len(call.body) - call.pos)
    /\ LET read == SubSeq(call.body, call.pos + 1, call.pos + n)
           q == OllamaFetchRead(Collected(call.fullResponse, call.delivered), read)
       IN  call' = [call EXCEPT !.chunks = call.chunks + 1,
                                !.pos = call.pos + n,
                                !.fullResponse = q.fullResponse,
                                !.delivered = q.delivered]
    /\ UNCHANGED <<pc, opts, env, file, config, provider, currentProviderName,
                   history, inflight, turn, sent, clean, failures, clears, overlaps,
                   commands, ev, profile>>

\* The stream ends: chat returns the text collected
StreamEnds ==
    /\ call.state = "streaming"
    /\ call.pos = Len(call.body)
    /\ call' = [call EXCEPT !.state = "done"]
    /\ UNCHANGED <<pc, opts, env, file, config, provider, currentProviderName,
                   history, inflight, turn, sent, clean, failures, clears, overlaps,
                   commands, ev, profile>>

\* The connection fails
TransportFails ==
    /\ call.state \in {"waiting", "streaming"}
    /\ call' = [call EXCEPT !.state = "failed", !.err = TransportError(call.to.kind)]
    /\ UNCHANGED <<pc, opts, env, file, config, provider, currentProviderName,
                   history, inflight, turn, sent, clean, failures, clears, overlaps,
                   commands, ev, profile>>

----------------------------------------------------------------------------
(* provider.healthCheck()                                                  *)

\* HealthCheckResult, and whether the call threw instead of returning one;
\* an error text is the sequence of its parts, << >> when absent
HealthCheckResult(healthy, error) == [threw |-> FALSE, healthy |-> healthy, error |-> error]
HealthCheckThrew(error) == [threw |-> TRUE, healthy |-> FALSE, error |-> error]

\* error instanceof Error ? error.message : 'Unknown error'
ErrorMessage(e) == <<IF e.isError THEN e.message ELSE "Unknown error">>

\* What the backend does with the request of a health check.
\*   settles: "rejects" (fetch or the SDK call rejects with `thrown`),
\*            "aborted" (the 5000 ms timer of fetchWithTimeout fires first),
\*            "responds" (an HTTP response, or the SDK call resolving)
\*   ok/status: response.ok and the status line
\*   body: "models" | "no models" | "null" | "odd models" | "not json"
Outcome(name, settles, thrown, ok, status, body) ==
    [name |-> name, settles |-> settles, thrown |-> thrown, ok |-> ok,
     status |-> status, body |-> body]

Thrown(isError, message) == [isError |-> isError, message |-> message]
NothingThrown == Thrown(FALSE, "")

\* the rejection of fetch when its signal is aborted
AbortError == Thrown(TRUE, "This operation was aborted")

\* `HTTP ${response.status}: ${response.statusText}`
HttpError(status) == <<"HTTP", status>>

\* response.json() followed by data.models?.map(m => m.name) || []
ReadModels(body) ==
    IF body = "not json" THEN Thrown(TRUE, "Unexpected token < in JSON at position 0")
    ELSE IF body = "null" THEN Thrown(TRUE, "Cannot read properties of null (reading 'models')")
    ELSE IF body = "odd models" THEN Thrown(TRUE, "data.models.map is not a function")
    ELSE NothingThrown

\* OllamaProvider.healthCheck with the HTTP error thrown past the catch
OllamaHealthCheckThrowing(o) ==
    IF o.settles = "rejects" THEN HealthCheckResult(FALSE, ErrorMessage(o.thrown))
    ELSE IF o.settles = "aborted" THEN HealthCheckResult(FALSE, ErrorMessage(AbortError))
    ELSE IF ~o.ok THEN HealthCheckThrew(HttpError(o.status))
    ELSE IF ReadModels(o.body) # NothingThrown
         THEN HealthCheckResult(FALSE, ErrorMessage(ReadModels(o.body)))
         ELSE HealthCheckResult(TRUE, << >>)

\* OllamaProvider.healthCheck
OllamaHealthCheck(o) ==
    IF o.settles = "rejects" THEN HealthCheckResult(FALSE, ErrorMessage(o.thrown))
    ELSE IF o.settles = "aborted" THEN HealthCheckResult(FALSE, ErrorMessage(AbortError))
    ELSE IF ~o.ok THEN HealthCheckResult(FALSE, HttpError(o.status))
    ELSE IF ReadModels(o.body) # NothingThrown
         THEN HealthCheckResult(FALSE, ErrorMessage(ReadModels(o.body)))
         ELSE HealthCheckResult(TRUE, << >>)

\* OpenAIProvider.healthCheck (OpenRouterProvider inherits it) and
\* AnthropicProvider.healthCheck: one SDK call inside try/catch
SdkHealthCheck(o) ==
    IF o.settles = "rejects"
    THEN HealthCheckResult(FALSE, ErrorMessage(o.thrown))
    ELSE HealthCheckResult(TRUE, << >>)

healthCheck(a, o) ==
    IF a.kind = "ollama" THEN OllamaHealthCheck(o) ELSE SdkHealthCheck(o)

\* the outcomes of a health check of the local adapter and of a cloud adapter
OllamaOutcomes ==
    {Outcome("unreachable", "rejects", Thrown(TRUE, "fetch failed"), FALSE, "", ""),
     Outcome("aborted", "aborted", NothingThrown, FALSE, "", ""),
     Outcome("non-2xx", "responds", NothingThrown, FALSE, "404 Not Found", ""),
     Outcome("non-2xx", "responds", NothingThrown, FALSE, "500 Internal Server Error", "not json"),
     Outcome("unreadable body", "responds", NothingThrown, TRUE, "200 OK", "not json"),
     Outcome("unreadable body", "responds", NothingThrown, TRUE, "200 OK", "null"),
     Outcome("unreadable body", "responds", NothingThrown, TRUE, "200 OK", "odd models"),
     Outcome("success", "responds", NothingThrown, TRUE, "200 OK", "models"),
     Outcome("success", "responds", NothingThrown, TRUE, "200 OK", "no models")}

SdkOutcomes ==
    {Outcome("unreachable", "rejects", Thrown(TRUE, ConnectionError), FALSE, "", ""),
     Outcome("aborted", "rejects", Thrown(TRUE, SdkTimeout), FALSE, "", ""),
     Outcome("non-2xx", "rejects", Thrown(TRUE, "401 Incorrect API key provided"), FALSE, "", ""),
     Outcome("sdk error", "rejects", Thrown(FALSE, "not an Error"), FALSE, "", ""),
     Outcome("success", "responds", NothingThrown, TRUE, "200 OK", "models")}

\* runDoctor awaits provider.healthCheck() outside any try: a health check
\* that threw would end the process
HealthCheck(o) ==
    /\ pc = "repl"
    /\ call.state = "none"
    /\ ev.op = "start"
    /\ o \in IF provider.kind = "ollama" THEN OllamaOutcomes ELSE SdkOutcomes
    /\ LET r == healthCheck(provider, o)
       IN  /\ ev' = EventOut("healthCheck", o.name, r.healthy, <<r.error>>)
           /\ pc' = IF r.threw THEN "crashed" ELSE pc
    /\ UNCHANGED <<opts, env, file, config, provider, currentProviderName,
                   history, inflight, turn, sent, clean, failures, clears, overlaps,
                   commands, call, profile>>

----------------------------------------------------------------------------

(* SpecChat: one chat call on each kind of adapter, with either transport  *)
(* of the local adapter, streaming or not                                  *)

ChatEnv == Env(Undef, Undef, Undef, "sk-openai", "sk-anthropic", "sk-openrouter")

ChatAdapters ==
    {Create([MainConfig.providers[n] EXCEPT !.timeout = t], ChatEnv, n).adapter :
        n \in Kinds, t \in {30000, DEFAULT_TIMEOUT}}

InitChat ==
    /\ pc = "repl"
    /\ opts = NoOpts
    /\ env = ChatEnv
    /\ file = FileJson(MainConfig)
    /\ config = MainConfig
    /\ provider \in ChatAdapters
    /\ currentProviderName = provider.src
    /\ history = <<SystemMsg>>
    /\ inflight = {}
    /\ turn = 0
    /\ sent = NoSent
    /\ clean = TRUE
    /\ failures = 0
    /\ clears = 0
    /\ overlaps = 0
    /\ commands = 0
    /\ ev = Event("start", Undef, TRUE)
    /\ call = NoCall
    /\ profile = {}

NextChat ==
    \/ \E stream \in BOOLEAN, lib \in BOOLEAN : CallChat(stream, lib)
    \/ TimerFires
    \/ ResponseArrives
    \/ \E content \in ChunkContents : ChunkArrives(content)
    \/ \E n \in 1..(MaxLines * 4) : ReadArrives(n)
    \/ StreamEnds
    \/ TransportFails
    \/ \E o \in OllamaOutcomes \cup SdkOutcomes : HealthCheck(o)

SpecChat == InitChat /\ [][NextChat]_vars

----------------------------------------------------------------------------
(* SpecRequest: provider.chat entered with any ordered history of up to    *)
(* MaxMsgs messages, on each kind of adapter                               *)

RequestTexts == {<<"p">>, <<"q">>, << >>}
RequestMsgs == {Msg(r, c) : r \in {"system", "user", "assistant"}, c \in RequestTexts}

RECURSIVE HistoriesOf(_)
HistoriesOf(n) ==
    IF n = 0 THEN {<< >>}
    ELSE LET shorter == HistoriesOf(n - 1)
         IN  shorter \cup {Append(h, m) : h \in shorter, m \in RequestMsgs}

InitRequest ==
    /\ pc = "repl"
    /\ opts = NoOpts
    /\ env = ChatEnv
    /\ file = FileJson(MainConfig)
    /\ config = MainConfig
    /\ provider \in {a \in ChatAdapters : a.timeout = DEFAULT_TIMEOUT}
    /\ currentProviderName = provider.src
    /\ history \in HistoriesOf(MaxMsgs)
    /\ inflight = {}
    /\ turn = 0
    /\ sent = NoSent
    /\ clean = TRUE
    /\ failures = 0
    /\ clears = 0
    /\ overlaps = 0
    /\ commands = 0
    /\ ev = Event("start", Undef, TRUE)
    /\ call = NoCall
    /\ profile = {}

NextRequest == \E stream \in BOOLEAN, lib \in BOOLEAN : CallChat(stream, lib)

SpecRequest == InitRequest /\ [][NextRequest]_vars

----------------------------------------------------------------------------

(* The setup flow: runSetup and setupProviderApiKey, one action per step   *)
(* of the dialogue.  The four "Configure <kind>?" answers are asked first  *)
(* and used later; each is drawn in the step that uses it.                 *)

\* answer.toLowerCase() on the answers of the dialogue
ToLower(s) == IF s = "Y" THEN "y" ELSE IF s = "N" THEN "n" ELSE s

\* parseInt(timeoutAnswer); NaN, which || treats as unset, is NoNum
ParseInt(s) == IF s = "30000" THEN 30000 ELSE IF s = "0" THEN 0 ELSE NoNum

EnvVarName(k) ==
    CASE k = "openai" -> "TERMWHAT_OPENAI_API_KEY"
      [] k = "anthropic" -> "TERMWHAT_ANTHROPIC_API_KEY"
      [] k = "openrouter" -> "TERMWHAT_OPENROUTER_API_KEY"

CloudDefaultModel(k) ==
    CASE k = "openai" -> "gpt-4"
      [] k = "anthropic" -> "claude-3-5-sonnet-20241022"
      [] k = "openrouter" -> "anthropic/claude-3.5-sonnet"

\* a printed line `  export ${envVarName}="<value>"`
ExportLine(var, value) == <<"export", var, value>>
PlaceHolder == "your-api-key-here"

\* config.providers[name] = entry
SetEntry(c, name, entry) ==
    [c EXCEPT !.providers =
        [n \in DOMAIN c.providers \cup {name} |->
            IF n = name THEN entry ELSE c.providers[n]]]

\* setupProviderApiKey: the value it returns (whether the backend is to be
\* configured), whether the export line was appended and the variable set,
\* and the lines printed
KeyStep(configured, appended, out) ==
    [configured |-> configured, appended |-> appended, out |-> out]

\* a setupProviderApiKey that returns true when the profile cannot be written
setupProviderApiKeyLenient(k, shouldAdd, apiKey, canAppend) ==
    LET var == EnvVarName(k)
        hint == ExportLine(var, PlaceHolder)
    IN  IF ToLower(shouldAdd) # "y"
        THEN KeyStep(FALSE, FALSE,
                     <<hint, <<"Skipping setup", k>>, ExportLine(var, PlaceHolder)>>)
        ELSE IF ~Truthy(apiKey)
        THEN KeyStep(FALSE, FALSE, <<hint, <<"No API key provided", k>>>>)
        ELSE IF canAppend
        THEN KeyStep(TRUE, TRUE, <<hint, <<"Added to profile", var>>,
                                   <<"Loaded into current session", var>>>>)
        ELSE KeyStep(TRUE, FALSE, <<hint, <<"Error: Failed to write to profile", var>>,
                                    ExportLine(var, apiKey)>>)

setupProviderApiKey(k, shouldAdd, apiKey, canAppend) ==
    LET var == EnvVarName(k)
        hint == ExportLine(var, PlaceHolder)
    IN  IF ToLower(shouldAdd) # "y"
        THEN KeyStep(FALSE, FALSE,
                     <<hint, <<"Skipping setup", k>>, ExportLine(var, PlaceHolder)>>)
        ELSE IF ~Truthy(apiKey)
        THEN KeyStep(FALSE, FALSE, <<hint, <<"No API key provided", k>>>>)
        ELSE IF canAppend
        THEN KeyStep(TRUE, TRUE, <<hint, <<"Added to profile", var>>,
                                   <<"Loaded into current session", var>>>>)
        ELSE KeyStep(FALSE, FALSE, <<hint, <<"Error: Failed to write to profile", var>>,
                                     ExportLine(var, apiKey)>>)

\* an entry for a cloud backend that also records the key
CloudEntryWithKey(k, modelAnswer, apiKey) ==
    Entry(k, OrElse(modelAnswer, CloudDefaultModel(k)), apiKey, DEFAULT_TIMEOUT)

\* config.providers.<kind> = { provider, model: modelAnswer || defaultModel,
\* timeout: 60000 }: the key the user gave is not among the fields
CloudEntry(k, modelAnswer, apiKey) ==
    Entry(k, OrElse(modelAnswer, CloudDefaultModel(k)), Undef, DEFAULT_TIMEOUT)

\* runSetup up to the first question: loadConfig
SetupBegin ==
    /\ pc = "setup"
    /\ \E canWrite \in BOOLEAN :
        LET l == loadConfig(file, canWrite)
        IN  /\ file' = l.file
            /\ config' = l.config
    /\ pc' = "setup ollama"
    /\ ev' = Event("setup", "begin", TRUE)
    /\ UNCHANGED <<opts, env, provider, currentProviderName, history, inflight, turn,
                   sent, clean, failures, clears, overlaps, commands, call, profile>>

\* "Configure ollama? [Y/n]" and the three questions of the local backend
SetupOllama(configOllama, hostAnswer, modelAnswer, timeoutAnswer) ==
    /\ pc = "setup ollama"
    /\ LET existing == Lookup(config, "ollama")
           defaultHost == OrElse(existing.host, DefaultHost)
           defaultModel == OrElse(existing.model, DefaultModel)
           defaultTimeout == OrElseNum(existing.timeout, DEFAULT_TIMEOUT)
       IN  IF ToLower(configOllama) # "n"
           THEN /\ config' = SetEntry(config, "ollama",
                                Entry("ollama", OrElse(modelAnswer, defaultModel),
                                      OrElse(hostAnswer, defaultHost),
                                      OrElseNum(ParseInt(timeoutAnswer), defaultTimeout)))
                /\ ev' = EventOut("setup", "ollama", TRUE, << <<"Ollama configured">> >>)
           ELSE /\ config' = config
                /\ ev' = Event("setup", "ollama", FALSE)
    /\ pc' = "setup openai"
    /\ UNCHANGED <<opts, env, file, provider, currentProviderName, history, inflight,
                   turn, sent, clean, failures, clears, overlaps, commands, call, profile>>

\* the step of kind k
SetupStepOf(k) ==
    CASE k = "openai" -> "setup openai"
      [] k = "anthropic" -> "setup anthropic"
      [] k = "openrouter" -> "setup openrouter"

\* the step that follows the one of kind k
AfterSetupOf(k) ==
    CASE k = "openai" -> "setup anthropic"
      [] k = "anthropic" -> "setup openrouter"
      [] k = "openrouter" -> "setup save"

\* "Configure <kind>? [y/N]", setupProviderApiKey and the model question of
\* a cloud backend
SetupCloud(k, configure, shouldAdd, apiKey, canAppend, modelAnswer) ==
    /\ pc = SetupStepOf(k)
    /\ IF ToLower(configure) = "y"
       THEN LET r == setupProviderApiKey(k, shouldAdd, apiKey, canAppend)
            IN  /\ ev' = EventOut("setup", k, r.configured, r.out)
                /\ IF r.appended
                   THEN /\ profile' = profile \cup {ExportLine(EnvVarName(k), apiKey)}
                        /\ env' = [env EXCEPT ![EnvVarName(k)] = apiKey]
                   ELSE UNCHANGED <<profile, env>>
                /\ IF r.configured
                   THEN config' = SetEntry(config, k, CloudEntry(k, modelAnswer, apiKey))
                   ELSE config' = config
       ELSE /\ ev' = Event("setup", k, FALSE)
            /\ UNCHANGED <<profile, env, config>>
    /\ pc' = AfterSetupOf(k)
    /\ UNCHANGED <<opts, file, provider, currentProviderName, history, inflight, turn,
                   sent, clean, failures, clears, overlaps, commands, call>>

\* saveConfig(config) after the four backends; a throw leaves runSetup and
\* the main action
SetupSave ==
    /\ pc = "setup save"
    /\ \E written \in BOOLEAN :
        IF written
        THEN /\ file' = saveConfig(config)
             /\ ev' = EventOut("setup", "save", TRUE, << <<"Configuration saved!">> >>)
             /\ pc' = "setup default"
        ELSE /\ file' = file
             /\ ev' = EventOut("setup", "save", FALSE, <<SaveFailedLine>>)
             /\ Crash
    /\ UNCHANGED <<opts, env, config, provider, currentProviderName, history, inflight,
                   turn, sent, clean, failures, clears, overlaps, commands, call, profile>>

\* "Default provider [...]", asked when more than one entry exists; then the
\* main action goes on to load the configuration
SetupDefault(defaultProvider) ==
    /\ pc = "setup default"
    /\ IF /\ Cardinality(DOMAIN config.providers) > 1
          /\ Truthy(defaultProvider) /\ defaultProvider \in DOMAIN config.providers
       THEN /\ config' = [config EXCEPT !.currentProvider = defaultProvider]
            /\ \E written \in BOOLEAN :
                IF written
                THEN /\ file' = saveConfig(config')
                     /\ ev' = EventOut("setup", "default", TRUE,
                                       << <<"Default provider set to", defaultProvider>> >>)
                     /\ pc' = "start"
                ELSE /\ file' = file
                     /\ ev' = EventOut("setup", "default", FALSE, <<SaveFailedLine>>)
                     /\ Crash
       ELSE /\ ev' = EventOut("setup", "default", TRUE,
                              << <<"Default provider set to", config.currentProvider>> >>)
            /\ pc' = "start"
            /\ UNCHANGED <<config, file>>
    /\ UNCHANGED <<opts, env, provider, currentProviderName, history, inflight, turn,
                   sent, clean, failures, clears, overlaps, commands, call, profile>>

----------------------------------------------------------------------------
(* SpecSetup: the setup dialogue under every modelled sequence of answers, *)
(* then process start and the configuration commands                       *)

SetupFiles == {FileAbsent, FileJson(DefaultConfig), FileJson(ReplConfig)}

YesNo == {"y", "Y", "n", ""}
KeyAnswers == {"", "sk-secret"}
ModelAnswers == {"", "setup-model"}
HostAnswers == {"", "http://setup-host:11434"}
TimeoutAnswers == {"", "30000", "0"}

InitSetup ==
    /\ pc = "setup"
    /\ opts = NoOpts
    /\ env \in {Env(Undef, Undef, Undef, ko, Undef, Undef) : ko \in {Undef, "sk-openai"}}
    /\ file \in SetupFiles
    /\ config = NullDoc
    /\ InitIdle

NextSetup ==
    \/ SetupBegin
    \/ \E a \in YesNo, h \in HostAnswers, m \in ModelAnswers, t \in TimeoutAnswers :
           SetupOllama(a, h, m, t)
    \/ \E k \in CloudKinds, a \in YesNo, add \in YesNo, key \in KeyAnswers,
          canAppend \in BOOLEAN, m \in ModelAnswers :
           SetupCloud(k, a, add, key, canAppend, m)
    \/ SetupSave
    \/ \E d \in MainNames \cup {""} : SetupDefault(d)
    \/ Main
    \/ \E name \in MainNames : ProviderCmd(name)
    \/ \E m \in CmdModels : ModelCmd(m)
    \/ \E h \in CmdHosts : HostCmd(h)

SpecSetup == InitSetup /\ [][NextSetup]_vars

----------------------------------------------------------------------------
(* Properties of the session history (SpecRepl) *)

\* C1: at most one provider.chat call is outstanding at any time; a line
\* that arrives while a call awaits its response is not processed.
C1_OneChatInFlight == Cardinality(inflight) <= 1

\* The history a fresh session holds after n > MAX_HISTORY sequential
\* successful turns answered by a backend of kind k: the system message and
\* the user/assistant pairs of turns n-9 .. n.
WindowAfter(n, k) ==
    [i \in 1..(2 * MAX_HISTORY + 1) |->
        IF i = 1 THEN SystemMsg
        ELSE IF i % 2 = 0 THEN UserMsg(n - MAX_HISTORY + (i \div 2))
        ELSE AssistantMsg(n - MAX_HISTORY + ((i - 1) \div 2), k)]

\* C2: after N > 10 consecutive successful turns of a fresh session with no
\* commands in between, the history has exactly 21 entries, the system
\* message first, and the oldest surviving user message is that of turn N-9.
C2_WindowAfterNTurns ==
    (Idle /\ clean /\ turn > MAX_HISTORY) =>
        /\ Len(history) = 21
        /\ history[2] = UserMsg(turn - 9)
        /\ history = WindowAfter(turn, provider.kind)

C2_Witness == Idle /\ clean /\ turn = MAX_HISTORY + 2 /\ history[2] = UserMsg(3)

\* C9: whenever the session is Idle, after any sequence of successful turns,
\* failed turns and commands, the history holds at most 21 entries
\* (1 + 2 * MAX_HISTORY).  Stated for the sessions in which every line was
\* entered while no chat call was outstanding.
C9_AtMost21WhenIdle ==
    (Idle /\ overlaps = 0) => Len(history) <= 1 + 2 * MAX_HISTORY

\* C10: whenever the session is Idle the history holds an even number of
\* non-system entries.  Stated for the sessions in which every line was
\* entered while no chat call was outstanding.
C10_EvenWhenIdle ==
    (Idle /\ overlaps = 0) => Cardinality({i \in 1..Len(history) : history[i].role # "system"}) % 2 = 0

----------------------------------------------------------------------------
(* Properties of the configuration commands (SpecSwitch) *)

\* a step in which the line handler of the named command ran
Handled(op) == ev'.op = op /\ commands' = commands + 1

\* the four effects of /provider <name>
SwitchedTo(name, p, cpn, c, f) ==
    /\ HasEntry(c, name)
    /\ p = Create(c.providers[name], env, name).adapter
    /\ cpn = name
    /\ c.currentProvider = name
    /\ f.kind = "json" /\ f.doc.currentProvider = name

\* C3: /provider <name> is all-or-none: when the command has finished,
\* either the new client is live, currentProviderName and
\* config.currentProvider equal <name> and the file records <name>, or the
\* client, both names and the file are as they were before the command.
C3_SwitchAllOrNone ==
    [][Handled("provider") =>
          \/ SwitchedTo(ev'.arg, provider', currentProviderName', config', file')
          \/ UNCHANGED <<provider, currentProviderName, config, file>>]_vars

\* C4: /provider <name> leaves every history entry as it was, and the next
\* question goes, with the preserved history followed by the new user
\* message, to the adapter that is live when the line is handled.
C4_SwitchKeepsHistory ==
    [][/\ Handled("provider") => history' = history
       /\ turn' = turn + 1 =>
            /\ sent'.to = provider
            /\ sent'.messages = history'
            /\ Len(history) < 2 * MAX_HISTORY + 1 =>
                   history' = Append(history, UserMsg(turn'))]_vars

C4_Witness ==
    /\ ev.op = "provider" /\ ev.arg = "openai"
    /\ sent.to.kind = "openai"
    /\ Len(sent.messages) = 4
    /\ sent.messages[3] = AssistantMsg(1, "ollama")
    /\ sent.messages[4] = UserMsg(2)

----------------------------------------------------------------------------
(* Properties of process start (SpecMain) *)

\* the first source that is set
FirstSet(a, b, c, d) == OrElse(a, OrElse(b, OrElse(c, d)))

Started == pc = "repl" /\ ev.op = "main" /\ commands = 0

\* C5: the model, and for the local backend the host, that the constructed
\* adapter uses is taken from the first source that is set among flag,
\* environment variable, config entry and built-in default; the backend is
\* chosen by --provider, then TERMWHAT_PROVIDER, then config.currentProvider.
C5_OverlayOrder ==
    Started =>
        LET name == FirstSet(opts.provider, env.TERMWHAT_PROVIDER, config.currentProvider, Undef)
            entry == Lookup(config, name)
        IN  /\ provider.src = name
            /\ provider.kind = entry.provider
            /\ provider.model =
                   FirstSet(opts.model, env.TERMWHAT_MODEL, entry.model, DefaultModel)
            /\ provider.kind = "ollama" =>
                   provider.host =
                       FirstSet(opts.host, env.TERMWHAT_OLLAMA_HOST, entry.host, DefaultHost)

\* the credential variable of a cloud kind
KeyOf(e, k) ==
    CASE k = "openai" -> e.TERMWHAT_OPENAI_API_KEY
      [] k = "anthropic" -> e.TERMWHAT_ANTHROPIC_API_KEY
      [] k = "openrouter" -> e.TERMWHAT_OPENROUTER_API_KEY

\* C6: AIProviderFactory.create for a cloud kind succeeds if and only if that
\* kind's own credential variable is set, whatever the other two are.  The
\* create call is the one of process start, on the selected entry.
C6_OwnCredentialOnly ==
    (ev.op = "main" /\ Lookup(config, ev.arg).provider \in CloudKinds) =>
        (ev.ok <=> Truthy(KeyOf(env, Lookup(config, ev.arg).provider)))

\* C8: after /model <m> (and /host <h> on the local backend) the live
\* adapter reports the value, and the entry the live adapter was built from,
\* and no other entry, carries it in memory and in the file; this for every
\* way the initial adapter was selected.
C8_PatchesLiveEntry ==
    [][(Handled("model") \/ (Handled("host") /\ provider.kind = "ollama")) /\ ev'.ok =>
          /\ ev'.op = "model" => provider'.model = ev'.arg
          /\ ev'.op = "host" => provider'.host = ev'.arg
          /\ HasEntry(config', provider'.src)
          /\ ev'.op = "model" => config'.providers[provider'.src].model = ev'.arg
          /\ ev'.op = "host" => config'.providers[provider'.src].host = ev'.arg
          /\ \A n \in DOMAIN config.providers \ {provider'.src} :
                 config'.providers[n] = config.providers[n]
          /\ file' = FileJson(config')]_vars


----------------------------------------------------------------------------
(* Properties of loadConfig (SpecLoad) *)

\* a legacy document: no currentProvider and at least one legacy field
IsLegacyDocument(d) ==
    /\ d.isObj
    /\ d.currentProvider = Undef
    /\ (d.ollamaHost # Undef \/ d.model # Undef \/ d.timeout # NoNum)

\* its legacy values are non-empty strings and a non-zero timeout
OrdinaryValues(d) == d.ollamaHost # "" /\ d.model # "" /\ d.timeout # 0

\* the legacy values, or the built-in defaults for the absent fields
MigrationOf(d) ==
    AppConfig("ollama", [n \in {"ollama"} |->
        Entry("ollama",
              IF d.model = Undef THEN DefaultModel ELSE d.model,
              IF d.ollamaHost = Undef THEN DefaultHost ELSE d.ollamaHost,
              IF d.timeout = NoNum THEN DEFAULT_TIMEOUT ELSE d.timeout)])

\* C7: for every legacy document loadConfig returns currentProvider
\* 'ollama' and exactly one entry, of kind ollama, holding the legacy values
\* or the defaults for absent fields, and writes the migrated form to the
\* file.  Stated for a writable file and for legacy values that are
\* non-empty strings and a non-zero timeout.
C7_LegacyMigrated ==
    [][(/\ pc = "start" /\ pc' = "loaded" /\ ev'.op = "load" /\ ev'.ok
        /\ file.kind = "json" /\ IsLegacyDocument(file.doc) /\ OrdinaryValues(file.doc)) =>
          /\ config' = MigrationOf(file.doc)
          /\ file' = FileJson(MigrationOf(file.doc))]_vars

----------------------------------------------------------------------------
(* Further properties of the session history (SpecRepl) *)

\* C11: the history never loses the system message: in every reachable
\* session state (questions, failures, trims, /clear, overlapping lines
\* included) the first entry is the fixed system prompt, no other entry has
\* the system role, and every chat request starts with the system prompt.
C11_SystemMessageFirst ==
    /\ Len(history) >= 1
    /\ history[1] = SystemMsg
    /\ \A i \in 2..Len(history) : history[i].role # "system"
    /\ sent.turn > 0 => sent.messages[1] = SystemMsg

\* a /clear, a failed turn and a trim have happened: the trim removed the
\* failed turn's user message and the next one, so that a reply follows the
\* system message
C11_Witness ==
    /\ failures = 1 /\ clears = 1 /\ overlaps = 0
    /\ sent.turn = turn /\ Len(sent.messages) = 2 * MAX_HISTORY + 1
    /\ sent.messages[1] = SystemMsg
    /\ sent.messages[2].role = "assistant"

\* C13: when a chat call fails the session returns to Idle with the failed
\* turn's user message still in the history and no assistant entry for it,
\* and the entries that were in the history before the turn are unchanged:
\* the history is the one the request was built from, which ends with the
\* turn's user message.  Stated for the sessions in which no question was
\* entered while a chat call was outstanding.
C13_FailedTurnKeepsHistory ==
    [][(failures' = failures + 1 /\ overlaps = 0) =>
          /\ pc' = "repl" /\ inflight' = {}
          /\ history' = sent.messages
          /\ history'[Len(history')] = UserMsg(sent.turn)]_vars

----------------------------------------------------------------------------
(* Further properties of the configuration commands (SpecSwitch) *)

\* a /provider step that swapped the session to the named entry while the
\* file still records another name: the save after the swap failed
SaveFailedAfterSwap ==
    /\ Handled("provider")
    /\ HasEntry(config, ev'.arg)
    /\ Create(config.providers[ev'.arg], env, ev'.arg).ok
    /\ file'.doc.currentProvider # ev'.arg

\* C14: if persisting the configuration fails during /provider <name> after
\* the in-memory swap, the user is told (the handler prints an error line),
\* and the session goes on, not crashed, with the new client live and
\* currentProviderName = <name> while the file keeps the old name.
C14_SaveFailureReported ==
    [][SaveFailedAfterSwap =>
          /\ \E i \in 1..Len(ev'.out) :
                 ev'.out[i][1] \in {"Error: Failed to save config", "Error switching provider"}
          /\ pc' = "repl"
          /\ inflight' = inflight
          /\ provider' = Create(config.providers[ev'.arg], env, ev'.arg).adapter
          /\ currentProviderName' = ev'.arg
          /\ config'.currentProvider = ev'.arg
          /\ file' = file]_vars

\* the save of /provider openai failed, and the question asked afterwards
\* was sent to, and answered by, the new client
C14_Witness ==
    /\ ev.op = "provider" /\ ev.arg = "openai" /\ ~ev.ok
    /\ ev.out[1] = SaveFailedLine
    /\ currentProviderName = "openai" /\ provider.kind = "openai"
    /\ file.doc.currentProvider = "ollama"
    /\ Idle
    /\ sent.to.kind = "openai"
    /\ history = <<SystemMsg, UserMsg(1), AssistantMsg(1, "openai")>>

----------------------------------------------------------------------------
(* Further properties of the configuration store (SpecLoad) *)

\* C15: migration is idempotent: after a first loadConfig has migrated a
\* legacy file, a second loadConfig returns a configuration equal to the
\* first result, does not write the file and does not print the migration
\* notice again.
C15_MigrationIdempotent ==
    [][(/\ pc = "loaded" /\ ev.op = "load" /\ ev.arg = "migrated"
        /\ pc' = "reloaded") =>
          /\ config' = config
          /\ file' = file
          /\ ev'.arg = "plain"]_vars

\* the second load of a file whose legacy host and model were migrated
C15_Witness ==
    /\ pc = "reloaded" /\ ev.op = "reload" /\ ev.arg = "plain"
    /\ config.currentProvider = "ollama"
    /\ Lookup(config, "ollama").host = "http://legacy-host:11434"
    /\ Lookup(config, "ollama").model = "legacy-model"
    /\ file = FileJson(config)

\* a loadConfig call: the first one, or a later one
LoadCall == (pc = "start" /\ pc' = "loaded") \/ pc' = "reloaded"

\* C16: when the file is absent or its content cannot be parsed, loadConfig
\* returns, without throwing, the same built-in default (currentProvider
\* 'ollama' and one entry, of kind ollama, with model 'llama3.2', timeout
\* 60000 and the default host) and neither creates nor modifies the file.
C16_DefaultOnAbsentOrCorrupt ==
    [][(LoadCall /\ file.kind \in {"absent", "corrupt"}) =>
          /\ pc' \in {"loaded", "reloaded"}
          /\ config'.currentProvider = "ollama"
          /\ DOMAIN config'.providers = {"ollama"}
          /\ config'.providers["ollama"] =
                 [provider |-> "ollama", model |-> "llama3.2",
                  host |-> "http://localhost:11434", timeout |-> 60000]
          /\ config'.ollamaHost = Undef /\ config'.model = Undef /\ config'.timeout = NoNum
          /\ file' = file]_vars

\* an unparseable file has been loaded: the warning, the default, the file kept
C16_Witness ==
    /\ pc = "loaded" /\ file.kind = "corrupt" /\ config = DefaultConfig /\ ev.arg = "warned"

\* an AppConfig in the current shape: currentProvider is a string, providers
\* is a mapping, and there are no legacy fields
IsAppConfig(c) ==
    /\ c.isObj /\ c.hasProviders /\ c.currentProvider # Undef
    /\ c.ollamaHost = Undef /\ c.model = Undef /\ c.timeout = NoNum

\* C17: round trip: for every AppConfig c in the current shape, saveConfig(c)
\* followed by loadConfig returns a configuration equal to c in every field,
\* and saving a loaded configuration does not change what the file means
\* (what loadConfig reads from it).
C17_RoundTrip ==
    [][/\ (pc = "saved" /\ ev.op = "save" /\ ev.ok /\ IsAppConfig(config)
           /\ pc' = "reloaded") =>
             /\ config' = config
             /\ config'.currentProvider = config.currentProvider
             /\ \A n \in DOMAIN config.providers :
                    Lookup(config', n) = config.providers[n]
             /\ file' = file
       /\ (pc = "loaded" /\ pc' = "saved" /\ ev'.ok) =>
             loadConfig(file', TRUE).config = config]_vars

\* a configuration with an empty currentProvider and cloud entries that have
\* no host has been saved and loaded again
C17_Witness ==
    /\ pc = "reloaded" /\ ev.op = "load saved"
    /\ IsAppConfig(config)
    /\ config.currentProvider = ""
    /\ Lookup(config, "openai") = Entry("openai", "gpt-4", Undef, DEFAULT_TIMEOUT)
    /\ file = FileJson(config)

----------------------------------------------------------------------------
(* Properties of the provider factory (SpecLoad) *)

\* C18: provider resolution fails explicitly and never yields an undefined
\* adapter: createFromAppConfig raises an error ('Provider ... not found in
\* configuration') when currentProvider is not a key of providers, create
\* raises an error ('Unknown provider type') for an entry whose kind tag is
\* not one of the four, and a call that returns yields an adapter of one of
\* the four kinds.
C18_ResolutionFailsExplicitly ==
    [][pc' = "created" =>
          /\ (config.isObj /\ config.hasProviders /\ ~HasEntry(config, config.currentProvider)) =>
                 /\ ~ev'.ok
                 /\ ev'.out = << <<"Provider not found in configuration">> >>
          /\ (~config.isObj \/ ~config.hasProviders) => ~ev'.ok
          /\ (HasEntry(config, config.currentProvider)
              /\ config.providers[config.currentProvider].provider \notin Kinds) =>
                 /\ ~ev'.ok
                 /\ ev'.out = << <<"Unknown provider type">> >>
          /\ ev'.ok => (provider' # NoAdapter /\ provider'.kind \in Kinds)
          /\ ~ev'.ok => provider' = NoAdapter]_vars

\* currentProvider 'openai' over a configuration that has the ollama entry
\* only: the call raised 'not found'
C18_Witness ==
    /\ pc = "created" /\ ev.op = "create" /\ ev.arg = "openai" /\ ~ev.ok
    /\ DOMAIN config.providers = {"ollama"}
    /\ ev.out = << <<"Provider not found in configuration">> >>

----------------------------------------------------------------------------
(* Properties of a chat call (SpecChat) *)

\* C12: a chat call whose configured timeout expires before the response
\* completes is cancelled and fails with the timeout error 'Request timed
\* out after <n>ms', n the adapter's timeout.  Stated for the local adapter,
\* with either transport, streaming or not, once the call has ended.
C12_TimeoutCancels ==
    (call.to.kind = "ollama" /\ call.aborted /\ call.state \in {"done", "failed"}) =>
        (call.state = "failed" /\ call.err = TimeoutError(call.to.timeout))

----------------------------------------------------------------------------
(* Properties of the setup flow (SpecSetup) *)

\* the API key values held by the shell profile and the process environment
Secrets ==
    ({l[3] : l \in profile}
     \cup {env.TERMWHAT_OPENAI_API_KEY, env.TERMWHAT_ANTHROPIC_API_KEY,
           env.TERMWHAT_OPENROUTER_API_KEY}) \ {Undef}

\* every string a configuration document holds
DocStrings(d) ==
    {d.currentProvider, d.ollamaHost, d.model}
    \cup DOMAIN d.providers
    \cup UNION {{d.providers[n].provider, d.providers[n].model, d.providers[n].host} :
                   n \in DOMAIN d.providers}

\* C19: API keys are never written to the configuration document: after any
\* run of the setup flow, with any answers, and after any later save by the
\* REPL, neither the file nor the configuration in memory holds an API key
\* value; the keys are in the shell profile and the process environment.
C19_NoKeyInConfigFile ==
    /\ DocStrings(file.doc) \cap Secrets = {}
    /\ DocStrings(config) \cap Secrets = {}

\* setup stored a key for anthropic and wrote its entry, and the REPL has
\* saved the configuration since
C19_Witness ==
    /\ pc = "repl" /\ ev.op = "model" /\ ev.ok
    /\ ExportLine("TERMWHAT_ANTHROPIC_API_KEY", "sk-secret") \in profile
    /\ env.TERMWHAT_ANTHROPIC_API_KEY = "sk-secret"
    /\ file.kind = "json" /\ HasEntry(file.doc, "anthropic")
    /\ file.doc.providers["anthropic"].model = "setup-model"
    /\ file = FileJson(config)

\* the credential step of kind k completed in this step: a non-empty key
\* was appended to the shell profile as an export line and set in the
\* process environment
CredentialStored(k) ==
    \E l \in profile' \ profile :
        /\ l[1] = "export" /\ l[2] = EnvVarName(k) /\ Truthy(l[3])
        /\ env'[EnvVarName(k)] = l[3]

\* the credential step of kind k ran and ended in a decline, an empty key
\* or a failed profile write
CredentialSkipped(k) ==
    /\ ev'.arg = k
    /\ \E i \in 1..Len(ev'.out) :
           ev'.out[i][1] \in {"Skipping setup", "No API key provided",
                              "Error: Failed to write to profile"}

\* C20: in the setup flow a cloud backend that had no entry gets an entry,
\* in memory and then in the saved file, if and only if its credential step
\* completed; on a decline, an empty key or a failed profile write the entry
\* stays absent, an export line for the backend's variable is among the
\* lines printed, and setup goes on to the next step and to the save.
C20_EntryIffCredential ==
    [][/\ \A k \in CloudKinds :
            (pc = SetupStepOf(k) /\ pc' # pc /\ ~HasEntry(config, k)) =>
                /\ HasEntry(config', k) <=> CredentialStored(k)
                /\ CredentialSkipped(k) =>
                       /\ ~HasEntry(config', k)
                       /\ \E i \in 1..Len(ev'.out) :
                              ev'.out[i][1] = "export" /\ ev'.out[i][2] = EnvVarName(k)
                /\ pc' = AfterSetupOf(k)
                /\ \A n \in DOMAIN config.providers : Lookup(config', n) = config.providers[n]
       /\ (pc = "setup save" /\ pc' = "setup default") =>
               /\ file'.kind = "json"
               /\ DOMAIN file'.doc.providers = DOMAIN config.providers
               /\ file' = FileJson(config)]_vars

\* the anthropic step stored its key and wrote the entry; the openrouter
\* step could not write the profile, printed the export line with the key
\* and left the entry absent; the save is next
C20_Witness ==
    /\ pc = "setup save"
    /\ ev.op = "setup" /\ ev.arg = "openrouter" /\ ~ev.ok
    /\ Len(ev.out) = 3
    /\ ev.out[3] = ExportLine("TERMWHAT_OPENROUTER_API_KEY", "sk-secret")
    /\ ~HasEntry(config, "openrouter")
    /\ HasEntry(config, "anthropic")
    /\ profile = {ExportLine("TERMWHAT_ANTHROPIC_API_KEY", "sk-secret")}
    /\ file.kind = "absent"

----------------------------------------------------------------------------
(* Properties of the history trim (SpecRepl) *)

\* C24: every trimming step removes the oldest user message together with
\* the assistant reply to that same message and nothing else: the two
\* entries deleted are (user_k, assistant_k) of one turn.  Stated for the
\* sessions in which no question was entered while a chat call was
\* outstanding.
C24_TrimRemovesOneTurn ==
    [][(turn' = turn + 1 /\ overlaps' = 0 /\ Len(history') <= Len(history)) =>
          LET h == Append(history, UserMsg(turn'))
          IN  /\ history' = <<h[1]>> \o SubSeq(h, 4, Len(h))
              /\ h[2].role = "user"
              /\ h[3].role = "assistant"
              /\ h[3].content[2] = h[2].content[2]]_vars

----------------------------------------------------------------------------
(* Properties of a /provider command that cannot complete (SpecSwitch) *)

\* a /provider step whose name is not a key of the providers in memory or
\* whose adapter cannot be constructed
SwitchFailed ==
    /\ Handled("provider")
    /\ \/ ~HasEntry(config, ev'.arg)
       \/ ~Create(Lookup(config, ev'.arg), env, ev'.arg).ok

\* C25: when /provider <name> cannot complete because <name> is not a key
\* of the providers in memory or because constructing the adapter throws,
\* the live client, currentProviderName, config.currentProvider and the file
\* are unchanged and an error is printed; a question is sent to the adapter
\* that is live, which after such a command is the previous one.
C25_FailedSwitchChangesNothing ==
    [][/\ SwitchFailed =>
            /\ UNCHANGED <<provider, currentProviderName, config, file, history>>
            /\ pc' = "repl"
            /\ Len(ev'.out) >= 1
            /\ ev'.out[1][1] \in {"Error: Provider not found", "Error switching provider"}
       /\ (turn' = turn + 1 /\ ev.op = "provider" /\ ~ev.ok /\ ev.out[1] # SaveFailedLine) =>
            /\ sent'.to = provider
            /\ sent'.to.src = currentProviderName]_vars

\* /provider openai succeeded, /provider anthropic failed for its missing
\* credential, and the question was sent to and answered by the openai client
C25_Witness ==
    /\ ev.op = "provider" /\ ev.arg = "anthropic" /\ ~ev.ok
    /\ ev.out = << <<"Error switching provider",
                     "TERMWHAT_ANTHROPIC_API_KEY environment variable is not set">> >>
    /\ commands = 2
    /\ currentProviderName = "openai" /\ provider.kind = "openai"
    /\ config.currentProvider = "openai" /\ file.doc.currentProvider = "openai"
    /\ Idle
    /\ sent.to.kind = "openai"
    /\ history = <<SystemMsg, UserMsg(1), AssistantMsg(1, "openai")>>

----------------------------------------------------------------------------
(* Properties of the session's names (SpecMain) *)

\* C27: in every session state, from startRepl onward, currentProviderName
\* equals config.currentProvider and names the providers entry the live
\* adapter was built from, the entry's kind being the adapter's kind -
\* whether the initial adapter was chosen by config.currentProvider, by the
\* --provider flag or by TERMWHAT_PROVIDER.
C27_NameMatchesAdapter ==
    pc = "repl" =>
        /\ currentProviderName = config.currentProvider
        /\ HasEntry(config, currentProviderName)
        /\ provider.src = currentProviderName
        /\ config.providers[currentProviderName].provider = provider.kind

----------------------------------------------------------------------------
(* Properties of what loadConfig returns (SpecLoad) *)

\* C29: for every content of the file (absent, unparseable, legacy, current
\* shape, or valid JSON of any other shape) loadConfig returns an AppConfig
\* object in which providers is a mapping and currentProvider is one of its
\* keys.
C29_LoadReturnsValidAppConfig ==
    [][(pc = "start" /\ pc' = "loaded") =>
          /\ config'.isObj
          /\ config'.hasProviders
          /\ config'.currentProvider \in DOMAIN config'.providers]_vars

----------------------------------------------------------------------------
(* Properties of the slash commands (SpecSwitch) *)

\* C30: every slash command returns the session to the prompt: a failure of
\* saveConfig during /model or /host is reported and does not leave the line
\* handler, and the live adapter and the entry in memory either both keep the
\* old value or both carry the new one.
C30_CommandsReturnToPrompt ==
    [][commands' = commands + 1 =>
          /\ pc' = "repl"
          /\ Len(ev'.out) >= 1
          /\ ev'.op = "model" =>
                 (provider'.model = ev'.arg
                    <=> Lookup(config', currentProviderName').model = ev'.arg)
          /\ ev'.op = "host" =>
                 (provider'.host = ev'.arg
                    <=> Lookup(config', currentProviderName').host = ev'.arg)]_vars

----------------------------------------------------------------------------
(* Termination of a chat call (SpecChat) *)

\* C26: every question turn terminates: when the backend never answers or
\* stalls mid-stream, the call ends by its timeout expiring.  As a property
\* of finite runs: once the timer has fired the call has ended, no further
\* event from the backend being needed.  Stated for the local adapter, on
\* its library client and on fetch.
C26_TimerEndsTheCall ==
    (call.to.kind = "ollama" /\ call.aborted) => call.state \in {"done", "failed"}

----------------------------------------------------------------------------
(* Streaming: the text returned and the chunks delivered (SpecChat) *)

\* the concatenation of a sequence of contents
RECURSIVE Concat(_)
Concat(cs) == IF cs = << >> THEN << >> ELSE Chars(Head(cs)) \o Concat(Tail(cs))

\* a streaming chat call has returned
Returned == call.state = "done" /\ call.stream

\* C21: on every adapter and transport, the string a streaming chat call
\* returns is the concatenation, in delivery order, of the chunks that were
\* given to onChunk.
C21_ReturnedIsConcatOfChunks ==
    Returned => call.fullResponse = Concat(call.delivered)

\* a streaming call on the Anthropic adapter has returned "ab" after
\* delivering "a" then "b"
C21_Witness ==
    /\ Returned
    /\ call.to.kind = "anthropic"
    /\ call.delivered = <<"a", "b">>
    /\ call.fullResponse = <<"a", "b">>

\* the message.content of every well-formed line of a body, in order
RECURSIVE ContentsOfLines(_)
ContentsOfLines(lines) ==
    IF lines = << >>
    THEN << >>
    ELSE (IF ParsesAsJson(Head(lines)) THEN Chars(Head(lines)[2]) ELSE << >>)
         \o ContentsOfLines(Tail(lines))

\* C28: on fetch, the text a streaming call of the local adapter returns is
\* the concatenation of message.content of every well-formed line of the
\* response body, however the body was split into reads.
C28_DecodeIndependentOfFraming ==
    (Returned /\ call.to.kind = "ollama" /\ ~call.lib) =>
        call.fullResponse = ContentsOfLines(SplitLines(call.body))

----------------------------------------------------------------------------
(* Health checks (SpecChat) *)

\* C22: healthCheck never throws, on any adapter: every failure
\* (unreachable host, non-2xx status, abort by the 5-second timer,
\* unreadable body, SDK error) comes back as a result with healthy = false
\* and an error text, and success as healthy = true.
C22_HealthCheckNeverThrows ==
    ev.op = "healthCheck" =>
        /\ pc # "crashed"
        /\ ev.ok <=> ev.arg = "success"
        /\ ~ev.ok => /\ ev.out[1] # << >>
                     /\ \A i \in 1..Len(ev.out[1]) : Truthy(ev.out[1][i])

\* the local backend answered 404: the result is unhealthy with the status
\* as its error
C22_Witness ==
    /\ ev = EventOut("healthCheck", "non-2xx", FALSE, <<HttpError("404 Not Found")>>)
    /\ provider.kind = "ollama"
    /\ pc = "repl"

----------------------------------------------------------------------------
(* The request of the Anthropic adapter (SpecRequest) *)

\* the contents of the system messages of a history, one after the other
RECURSIVE SystemConcat(_)
SystemConcat(h) ==
    IF h = << >> THEN << >>
    ELSE (IF Head(h).role = "system" THEN Head(h).content ELSE << >>)
         \o SystemConcat(Tail(h))

\* the same with a paragraph break before every system message but the first
RECURSIVE SystemJoined(_, _)
SystemJoined(h, first) ==
    IF h = << >> THEN << >>
    ELSE IF Head(h).role = "system"
         THEN (IF first THEN << >> ELSE <<ParagraphBreak>>) \o Head(h).content
              \o SystemJoined(Tail(h), FALSE)
         ELSE SystemJoined(Tail(h), first)

\* the user and assistant messages of a history, in their order
RECURSIVE Conversation(_)
Conversation(h) ==
    IF h = << >> THEN << >>
    ELSE (IF Head(h).role \in {"user", "assistant"} THEN <<Head(h)>> ELSE << >>)
         \o Conversation(Tail(h))

AnthropicCalled == call.state = "waiting" /\ call.to.kind = "anthropic"

\* C23 as stated: the system instruction of the Anthropic request is the
\* concatenation, in history order, of the contents of all system messages,
\* and the body is the user and assistant messages in their order.
C23_SystemIsPlainConcatenation ==
    AnthropicCalled =>
        /\ call.request.system = SystemConcat(history)
        /\ call.request.messages = Conversation(history)

\* C23: the system instruction of the Anthropic request is the contents of
\* all system messages in history order, joined with a paragraph break
\* between consecutive ones, and is left out when that text is empty; the
\* body is exactly the user and assistant messages in their order, with no
\* system message in it.
C23_SystemIsJoinedWithBreaks ==
    AnthropicCalled =>
        /\ call.request.system = SystemJoined(history, TRUE)
        /\ call.request.hasSystem <=> SystemJoined(history, TRUE) # << >>
        /\ call.request.messages = Conversation(history)
        /\ \A i \in 1..Len(call.request.messages) : call.request.messages[i].role # "system"

\* two system messages around a question: the instruction is p, break, q
C23_Witness ==
    /\ AnthropicCalled
    /\ history = <<Msg("system", <<"p">>), Msg("user", <<"q">>), Msg("system", <<"q">>)>>
    /\ call.request = Request(<<"p", ParagraphBreak, "q">>, TRUE, <<Msg("user", <<"q">>)>>)

====
